---- MODULE Spec2Model ----
(***************************************************************************)
(* A model of network::parse_uri (src/detail/uri_parse.cpp): the one-pass  *)
(* scanner that validates a character sequence against the URI grammar and *)
(* records the component slices in a uri_parts record.                     *)
(*                                                                         *)
(* Iterators are 1-based positions into the input; `last` is the           *)
(* one-past-the-end position Len(input) + 1.  A slice uri_part(b, e) is    *)
(* the pair <<b, e>> (e exclusive); an absent optional is <<>>.            *)
(* One action is one iteration of one of the scanner's loops, or one of    *)
(* the straight-line blocks between them.                                  *)
(***************************************************************************)
EXTENDS Integers, Sequences, FiniteSets, TLC

\* ------------------------------------------------------------------ bounds
\* longest free part of an input (after one of the Heads)
MaxLen == 3
\* how far beyond the end of the input the cursor is followed before the
\* access is taken to fault
MaxOver == 12

\* ---------------------------------------------------------------- alphabet
Alpha == {"a", "b", "c", "d", "e", "f", "g", "h", "i", "j", "k", "l", "m",
          "n", "o", "p", "q", "r", "s", "t", "u", "v", "w", "x", "y", "z",
          "A", "B", "C", "D", "E", "F", "G", "H", "I", "J", "K", "L", "M",
          "N", "O", "P", "Q", "R", "S", "T", "U", "V", "W", "X", "Y", "Z"}
Digit == {"0", "1", "2", "3", "4", "5", "6", "7", "8", "9"}
HexDigit == Digit \cup {"a", "b", "c", "d", "e", "f", "A", "B", "C", "D", "E", "F"}

\* the characters inputs are drawn from: one or two of every class the
\* scanner distinguishes (" " stands for a character no component allows)
Chars == {"a", "1", ":", "/", "@", "[", "]", "?", "#", "%", "+", " "}

RECURSIVE Strs(_)
Strs(n) == IF n = 0 THEN {<< >>}
           ELSE LET S == Strs(n - 1) IN S \cup {Append(s, c) : s \in S, c \in Chars}

\* prefixes that bring the scanner to the entrance of each phase
Heads == { << >>,
           <<"a", ":">>,
           <<"a", "+", ":">>,
           <<"a", ":", "/", "/">>,
           <<"a", ":", "/", "/", "a", "@">>,
           <<"a", ":", "/", "/", "a", ":">>,
           <<"a", ":", "/", "/", "[", "a", "]">>,
           <<"a", ":", "/", "/", "a", "@", "a", ":">>,
           <<"a", ":", "/", "/", "[", ":", "]", ":">>,
           <<"a", ":", "?">> }
Inputs == {h \o b : h \in Heads, b \in Strs(MaxLen)}

\* ------------------------------------------------------ grammar primitives
\* Each primitive takes the buffer, a position and the end boundary, and
\* returns the position after what it matched, or the position unchanged
\* when nothing matched.
is_in(s, it, last, chars) ==
  IF it # last /\ s[it] \in chars THEN it + 1 ELSE it

isalnum(s, it, last) ==
  IF it # last /\ s[it] \in (Alpha \cup Digit) THEN it + 1 ELSE it

isdigit(s, it, last) ==
  IF it # last /\ s[it] \in Digit THEN it + 1 ELSE it

is_unreserved(s, it, last) ==
  IF isalnum(s, it, last) # it THEN isalnum(s, it, last)
  ELSE is_in(s, it, last, {"-", ".", "_", "~"})

is_sub_delim(s, it, last) ==
  is_in(s, it, last, {"!", "$", "&", "'", "(", ")", "*", "+", ",", ";", "="})

is_pct_encoded(s, it, last) ==
  IF /\ it # last /\ s[it] = "%"
     /\ it + 1 # last /\ s[it + 1] \in HexDigit
     /\ it + 2 # last /\ s[it + 2] \in HexDigit
  THEN it + 3 ELSE it

is_pchar(s, it, last) ==
  IF is_unreserved(s, it, last) # it THEN is_unreserved(s, it, last)
  ELSE IF is_pct_encoded(s, it, last) # it THEN is_pct_encoded(s, it, last)
  ELSE IF is_sub_delim(s, it, last) # it THEN is_sub_delim(s, it, last)
  ELSE is_in(s, it, last, {":", "@"})

\* every character from pos to the end of the port component is a digit
is_valid_port(s, pos, end) ==
  \A i \in pos .. (end - 1) : s[i] \in Digit

\* --------------------------------------------------------- local helpers
uri_part(first, last) == <<first, last>>

Absent == << >>

RECURSIVE is_valid_user_info(_, _, _)
is_valid_user_info(s, it, last) ==
  IF it = last THEN TRUE
  ELSE LET p == IF is_unreserved(s, it, last) # it THEN is_unreserved(s, it, last)
                ELSE IF is_pct_encoded(s, it, last) # it THEN is_pct_encoded(s, it, last)
                ELSE IF is_sub_delim(s, it, last) # it THEN is_sub_delim(s, it, last)
                ELSE is_in(s, it, last, {":"})
       IN IF p = it THEN FALSE ELSE is_valid_user_info(s, p, last)

\* set_host_and_port as it would be if the host kept the whole span when a
\* port is split off
set_host_and_port_whole_host(s, first, last, last_colon, parts) ==
  IF first = last_colon
  THEN [ok |-> TRUE, parts |-> [parts EXCEPT !.host = uri_part(first, last)]]
  ELSE LET port_start == last_colon + 1
           withHost == [parts EXCEPT !.host = uri_part(first, last)]
       IN IF ~is_valid_port(s, port_start, last)
          THEN [ok |-> FALSE, parts |-> withHost]
          ELSE [ok |-> TRUE,
                parts |-> [withHost EXCEPT !.port = uri_part(port_start, last)]]

\* set_host_and_port as it would be without the test for "no colon seen"
set_host_and_port_always_split(s, first, last, last_colon, parts) ==
  LET port_start == last_colon + 1
      withHost == [parts EXCEPT !.host = uri_part(first, last_colon)]
  IN IF ~is_valid_port(s, port_start, last)
     THEN [ok |-> FALSE, parts |-> withHost]
     ELSE [ok |-> TRUE,
           parts |-> [withHost EXCEPT !.port = uri_part(port_start, last)]]

\* set_host_and_port as it would be without the validation of the port
set_host_and_port_unchecked_port(s, first, last, last_colon, parts) ==
  IF first = last_colon
  THEN [ok |-> TRUE, parts |-> [parts EXCEPT !.host = uri_part(first, last)]]
  ELSE LET port_start == last_colon + 1
           withHost == [parts EXCEPT !.host = uri_part(first, last_colon)]
       IN [ok |-> TRUE,
           parts |-> [withHost EXCEPT !.port = uri_part(port_start, last)]]

\* the result of set_host_and_port: whether it returned true, and the parts
set_host_and_port(s, first, last, last_colon, parts) ==
  IF first = last_colon
  THEN [ok |-> TRUE, parts |-> [parts EXCEPT !.host = uri_part(first, last)]]
  ELSE LET port_start == last_colon + 1
           withHost == [parts EXCEPT !.host = uri_part(first, last_colon)]
       IN IF ~is_valid_port(s, port_start, last)
          THEN [ok |-> FALSE, parts |-> withHost]
          ELSE [ok |-> TRUE,
                parts |-> [withHost EXCEPT !.port = uri_part(port_start, last)]]

\* ------------------------------------------------------------------ state
VARIABLES input,      \* the characters between the two iterators passed in
          it,         \* the cursor
          first,      \* start of the component being scanned
          last_colon, \* last ':' seen in the authority
          state,      \* uri_state
          hp_state,   \* hier_part_state
          parts,      \* uri_parts
          pc,         \* position in parse_uri
          result,     \* "none" while running, then "true", "false" or "fault"
          iters,      \* loop iterations executed so far
          oob         \* a character at or beyond the end has been read

vars == <<input, it, first, last_colon, state, hp_state, parts, pc, result,
          iters, oob>>

last == Len(input) + 1

NoParts == [scheme |-> Absent, user_info |-> Absent, host |-> Absent,
            port |-> Absent, path |-> Absent, query |-> Absent,
            fragment |-> Absent]

Init ==
  /\ input \in Inputs
  /\ it = 1
  /\ first = 1
  /\ last_colon = 1
  /\ state = "scheme"
  /\ hp_state = "first_slash"
  /\ parts = NoParts
  /\ pc = "start"
  /\ result = "none"
  /\ iters = 0
  /\ oob = FALSE

\* what the memory holds when the position `last` itself is read: the input
\* inside the buffer, and whatever character c follows it
Mem(c) ==
  [i \in 1 .. (last + 1) |-> IF i < last THEN input[i] ELSE c]

\* the values a read of position p can give
Unknown(p) == IF p < last THEN {input[p]} ELSE Chars

Return(r) ==
  /\ pc' = "done"
  /\ result' = r

\* leave the hierarchical-part loop body with these values
Goto(it2, first2, lc2, st2, hp2, parts2) ==
  /\ it' = it2
  /\ first' = first2
  /\ last_colon' = lc2
  /\ state' = st2
  /\ hp_state' = hp2
  /\ parts' = parts2
  /\ result' = "none"
  /\ pc' = IF st2 = "query" THEN "query"
           ELSE IF st2 = "fragment" THEN "fragment" ELSE "hier"

Fail == /\ Return("false")
        /\ UNCHANGED <<it, first, last_colon, state, hp_state, parts>>

Fault == /\ Return("fault")
         /\ UNCHANGED <<it, first, last_colon, state, hp_state, parts>>

\* ---------------------------------------------------------- scheme phase
\* parse_uri up to the first loop of validate_scheme
Start ==
  /\ pc = "start"
  /\ UNCHANGED <<input, iters, oob>>
  /\ IF it = last THEN Fail
     ELSE IF input[it] \notin Alpha THEN Fail
     ELSE /\ it' = it + 1
          /\ pc' = "scheme"
          /\ UNCHANGED <<first, last_colon, state, hp_state, parts, result>>

\* one iteration of the loop of validate_scheme
SchemeStep ==
  /\ pc = "scheme"
  /\ it # last
  /\ input[it] # ":"
  /\ iters' = iters + 1
  /\ UNCHANGED <<input, oob>>
  /\ LET p == IF isalnum(input, it, last) # it THEN isalnum(input, it, last)
              ELSE is_in(input, it, last, {"+", "-", "."})
     IN IF p = it THEN Fail
        ELSE /\ it' = p
             /\ UNCHANGED <<first, last_colon, state, hp_state, parts, pc, result>>

\* SchemeDone as it would be if the scheme were recorded after moving past
\* the delimiter
SchemeDone_after_delimiter ==
  /\ pc = "scheme"
  /\ IF it = last THEN TRUE ELSE input[it] = ":"
  /\ iters' = IF it # last THEN iters + 1 ELSE iters
  /\ parts' = [parts EXCEPT !.scheme = uri_part(first, it + 1)]
  /\ it' = it + 1
  /\ state' = "hier_part"
  /\ pc' = "hier"
  /\ UNCHANGED <<input, first, last_colon, hp_state, result, oob>>

\* validate_scheme returns true (at a ':' or at the end of the input), and
\* parse_uri records the scheme and moves past the delimiter
SchemeDone ==
  /\ pc = "scheme"
  /\ IF it = last THEN TRUE ELSE input[it] = ":"
  /\ iters' = IF it # last THEN iters + 1 ELSE iters
  /\ parts' = [parts EXCEPT !.scheme = uri_part(first, it)]
  /\ it' = it + 1
  /\ state' = "hier_part"
  /\ pc' = "hier"
  /\ UNCHANGED <<input, first, last_colon, hp_state, result, oob>>

\* -------------------------------------------------- hierarchical part
\* the guard of one iteration of `while (it != last)` in sub-state hp
HierIter(hp) ==
  /\ pc = "hier"
  /\ it < last
  /\ hp_state = hp
  /\ iters' = iters + 1
  /\ UNCHANGED input

FirstSlash ==
  /\ HierIter("first_slash")
  /\ UNCHANGED oob
  /\ LET g == input[it] IN
       IF g = "/"
       THEN Goto(it + 1, it, last_colon, state, "second_slash", parts)
       ELSE Goto(it + 1, it, last_colon, state, "path", parts)

SecondSlash ==
  /\ HierIter("second_slash")
  /\ UNCHANGED oob
  /\ LET g == input[it] IN
       IF g = "/"
       THEN Goto(it + 1, it + 1, last_colon, state, "authority", parts)
       ELSE Goto(it + 1, first, last_colon, state, "path", parts)

Authority ==
  /\ HierIter("authority")
  /\ \E la \in (IF input[it] = "@" THEN Unknown(it + 1) ELSE {" "}) :
       LET s == Mem(la)
           g == input[it]
           lc == IF first = it THEN first ELSE last_colon
           shp == set_host_and_port(s, first, it, lc, parts)
       IN IF is_in(s, first, last, {"@", ":"}) # first
          THEN Fail /\ UNCHANGED oob
          ELSE CASE g = "@" ->
                      IF ~is_valid_user_info(s, first, it)
                      THEN /\ Return("false")
                           /\ last_colon' = lc
                           /\ UNCHANGED <<it, first, state, hp_state, parts>>
                           /\ UNCHANGED oob
                      ELSE /\ Goto(it + 1, it + 1, lc, state,
                                   IF s[it + 1] = "[" THEN "host_ipv6" ELSE "host",
                                   [parts EXCEPT !.user_info = uri_part(first, it)])
                           /\ oob' = (oob \/ it + 1 = last)
                 [] g = "[" ->
                      /\ Goto(it, it, lc, state, "host_ipv6", parts)
                      /\ UNCHANGED oob
                 [] g = ":" ->
                      /\ Goto(it + 1, first, it, state, hp_state, parts)
                      /\ UNCHANGED oob
                 [] g = "/" ->
                      /\ UNCHANGED oob
                      /\ IF ~shp.ok
                         THEN /\ Return("false")
                              /\ last_colon' = lc
                              /\ parts' = shp.parts
                              /\ UNCHANGED <<it, first, state, hp_state>>
                         ELSE Goto(it, it, lc, state, "path", shp.parts)
                 [] g \in {"?", "#"} ->
                      /\ UNCHANGED oob
                      /\ IF ~shp.ok
                         THEN /\ Return("false")
                              /\ last_colon' = lc
                              /\ parts' = shp.parts
                              /\ UNCHANGED <<it, first, state, hp_state>>
                         ELSE Goto(it + 1, it + 1, lc,
                                   IF g = "?" THEN "query" ELSE "fragment",
                                   hp_state,
                                   [shp.parts EXCEPT !.path = uri_part(it, it)])
                 [] OTHER ->
                      /\ Goto(it + 1, first, lc, state, hp_state, parts)
                      /\ UNCHANGED oob

\* Host as it would be without the test for a host that begins with ':'
Host_without_colon_test ==
  /\ HierIter("host")
  /\ UNCHANGED oob
  /\ LET g == input[it]
         withHost == [parts EXCEPT !.host = uri_part(first, it)]
     IN CASE g = ":" -> Goto(it + 1, it + 1, last_colon, state, "port", withHost)
          [] g = "/" -> Goto(it, it, last_colon, state, "path", withHost)
          [] g \in {"?", "#"} ->
               Goto(it + 1, it + 1, last_colon,
                    IF g = "?" THEN "query" ELSE "fragment", hp_state,
                    [withHost EXCEPT !.path = uri_part(it, it)])
          [] OTHER -> Goto(it + 1, first, last_colon, state, hp_state, parts)

Host ==
  /\ HierIter("host")
  /\ UNCHANGED oob
  /\ LET s == input
         g == input[it]
         withHost == [parts EXCEPT !.host = uri_part(first, it)]
       IN IF s[first] = ":" THEN Fail
          ELSE CASE g = ":" -> Goto(it + 1, it + 1, last_colon, state, "port", withHost)
                 [] g = "/" -> Goto(it, it, last_colon, state, "path", withHost)
                 [] g \in {"?", "#"} ->
                      Goto(it + 1, it + 1, last_colon,
                           IF g = "?" THEN "query" ELSE "fragment", hp_state,
                           [withHost EXCEPT !.path = uri_part(it, it)])
                 [] OTHER -> Goto(it + 1, first, last_colon, state, hp_state, parts)

HostIpv6 ==
  /\ HierIter("host_ipv6")
  /\ UNCHANGED oob
  /\ LET s == input
         g == input[it]
         nx == it + 1
         withHost == [parts EXCEPT !.host = uri_part(first, nx)]
       IN IF s[first] # "[" THEN Fail
          ELSE IF g # "]" THEN Goto(it + 1, first, last_colon, state, hp_state, parts)
          ELSE IF nx = last
          THEN /\ it' = nx
               /\ pc' = "finish"
               /\ UNCHANGED <<first, last_colon, state, hp_state, parts, result>>
          ELSE CASE s[nx] = ":" -> Goto(nx + 1, nx + 1, last_colon, state, "port", withHost)
                 [] s[nx] = "/" -> Goto(nx, nx, last_colon, state, "path", withHost)
                 [] s[nx] \in {"?", "#"} ->
                      Goto(nx + 1, nx + 1, last_colon,
                           IF s[nx] = "?" THEN "query" ELSE "fragment", hp_state,
                           [withHost EXCEPT !.path = uri_part(nx, nx)])
                 [] OTHER -> Goto(nx, first, last_colon, state, hp_state, parts)

Port ==
  /\ HierIter("port")
  /\ UNCHANGED oob
  /\ LET s == input
         g == input[it]
         withPort == [parts EXCEPT !.port = uri_part(first, it)]
       IN IF s[first] = "/"
          THEN IF ~is_valid_port(s, first, it) THEN Fail
               ELSE Goto(it, first, last_colon, state, "path", withPort)
          ELSE IF g = "/"
          THEN IF ~is_valid_port(s, first, it) THEN Fail
               ELSE Goto(it, it, last_colon, state, "path", withPort)
          ELSE IF isdigit(s, it, last) = it THEN Fail
          ELSE Goto(isdigit(s, it, last) + 1, first, last_colon, state, hp_state, parts)

Path ==
  /\ HierIter("path")
  /\ UNCHANGED oob
  /\ LET s == input
         g == input[it]
         p == IF is_pchar(s, it, last) # it THEN is_pchar(s, it, last)
                ELSE is_in(s, it, last, {"/"})
       IN IF g \in {"?", "#"}
          THEN Goto(it + 1, it + 1, last_colon,
                    IF g = "?" THEN "query" ELSE "fragment", hp_state,
                    [parts EXCEPT !.path = uri_part(first, it)])
          ELSE IF p = it THEN Fail
          ELSE Goto(p, first, last_colon, state, hp_state, parts)

\* the loop condition fails: the input is exhausted in the hierarchical part
HierExit ==
  /\ pc = "hier"
  /\ it = last
  /\ pc' = "finish"
  /\ UNCHANGED <<input, it, first, last_colon, state, hp_state, parts, result,
                 iters, oob>>

\* ---------------------------------------------------- query and fragment
\* Query as it would be if validate_query returned true at a character it
\* does not allow
Query_stops_at_bad_char ==
  /\ pc = "query"
  /\ it < last
  /\ UNCHANGED <<input, last_colon, hp_state, oob>>
  /\ iters' = iters + 1
  /\ LET p == IF is_pchar(input, it, last) # it THEN is_pchar(input, it, last)
              ELSE is_in(input, it, last, {"?", "/"})
     IN IF p # it
        THEN /\ it' = p
             /\ UNCHANGED <<first, state, parts, pc, result>>
        ELSE IF input[it] = "#"
        THEN /\ parts' = [parts EXCEPT !.query = uri_part(first, it)]
             /\ it' = it + 1
             /\ first' = it + 1
             /\ state' = "fragment"
             /\ pc' = "fragment"
             /\ UNCHANGED result
        ELSE /\ pc' = "finish"
             /\ UNCHANGED <<it, first, state, parts, result>>

\* Query as it would be if a '#' handed the rest of the input back to the
\* path sub-state of the hierarchical part
Query_back_to_path ==
  /\ pc = "query"
  /\ it < last
  /\ UNCHANGED <<input, last_colon, hp_state, oob>>
  /\ iters' = iters + 1
  /\ LET p == IF is_pchar(input, it, last) # it THEN is_pchar(input, it, last)
              ELSE is_in(input, it, last, {"?", "/"})
     IN IF p # it
        THEN /\ it' = p
             /\ UNCHANGED <<first, state, parts, pc, result>>
        ELSE IF input[it] = "#"
        THEN /\ parts' = [parts EXCEPT !.query = uri_part(first, it)]
             /\ it' = it + 1
             /\ first' = it + 1
             /\ state' = "hier_part"
             /\ pc' = "hier"
             /\ UNCHANGED result
        ELSE /\ Return("false")
             /\ UNCHANGED <<it, first, state, parts>>

\* one iteration of the loop of validate_query; when it returns true, the
\* test for the fragment delimiter that follows the call
Query ==
  /\ pc = "query"
  /\ it < last
  /\ UNCHANGED <<input, last_colon, hp_state, oob>>
  /\ iters' = iters + 1
  /\ LET p == IF is_pchar(input, it, last) # it THEN is_pchar(input, it, last)
              ELSE is_in(input, it, last, {"?", "/"})
     IN IF p # it
        THEN /\ it' = p
             /\ UNCHANGED <<first, state, parts, pc, result>>
        ELSE IF input[it] = "#"
        THEN /\ parts' = [parts EXCEPT !.query = uri_part(first, it)]
             /\ it' = it + 1
             /\ first' = it + 1
             /\ state' = "fragment"
             /\ pc' = "fragment"
             /\ UNCHANGED result
        ELSE /\ Return("false")
             /\ UNCHANGED <<it, first, state, parts>>

\* validate_query returns true at the end of the input; the test for the
\* fragment delimiter then reads the position `last`
QueryExit ==
  /\ pc = "query"
  /\ it = last
  /\ UNCHANGED <<input, last_colon, hp_state, iters, result>>
  /\ oob' = TRUE
  /\ \E c \in Unknown(it) :
       IF c = "#"
       THEN /\ parts' = [parts EXCEPT !.query = uri_part(first, it)]
            /\ it' = it + 1
            /\ first' = it + 1
            /\ state' = "fragment"
            /\ pc' = "fragment"
       ELSE /\ pc' = "finish"
            /\ UNCHANGED <<it, first, state, parts>>

\* one iteration of the loop of validate_fragment
Fragment ==
  /\ pc = "fragment"
  /\ it < last
  /\ UNCHANGED <<input, first, last_colon, state, hp_state, parts, oob>>
  /\ iters' = iters + 1
  /\ LET p == IF is_pchar(input, it, last) # it THEN is_pchar(input, it, last)
              ELSE is_in(input, it, last, {"?", "/"})
     IN IF p # it
        THEN it' = p /\ UNCHANGED <<pc, result>>
        ELSE Return("false") /\ UNCHANGED it

\* validate_fragment returns true
FragmentExit ==
  /\ pc = "fragment"
  /\ it = last
  /\ pc' = "finish"
  /\ UNCHANGED <<input, it, first, last_colon, state, hp_state, parts, result,
                 iters, oob>>

\* --------------------------------------------------- beyond the end
\* The cursor is past `last`, so `it != last` holds in every loop and each
\* iteration reads memory that is not part of the input: whatever is there
\* either lets the scan go on (by one character, or by more where a
\* primitive consumes several), or makes it return false.  The loops can no
\* longer end with `it == last`, which every return of true goes through.
Overrun ==
  /\ pc \in {"hier", "query", "fragment"}
  /\ it > last
  /\ it < last + MaxOver
  /\ oob' = TRUE
  /\ iters' = iters + 1
  /\ UNCHANGED <<input, first, last_colon, state, hp_state, parts>>
  /\ \/ \E d \in 1 .. 3 : it' = it + d /\ UNCHANGED <<pc, result>>
     \/ Return("false") /\ UNCHANGED it

\* ------------------------------------------------------------- the ending
\* the block after "we're done!"
Finish ==
  /\ pc = "finish"
  /\ UNCHANGED <<input, it, first, last_colon, state, hp_state, iters, oob>>
  /\ pc' = "done"
  /\ LET shp == set_host_and_port(input, first, last, last_colon, parts)
     IN IF state = "hier_part"
        THEN IF hp_state \in {"authority", "host", "host_ipv6"}
             THEN IF ~shp.ok
                  THEN parts' = shp.parts /\ result' = "false"
                  ELSE /\ parts' = [shp.parts EXCEPT !.path = uri_part(last, last)]
                       /\ result' = "true"
             ELSE IF hp_state = "port"
             THEN IF ~is_valid_port(input, first, last)
                  THEN result' = "false" /\ UNCHANGED parts
                  ELSE /\ parts' = [parts EXCEPT !.port = uri_part(first, last),
                                                 !.path = uri_part(last, last)]
                       /\ result' = "true"
             ELSE IF hp_state = "path"
             THEN /\ parts' = [parts EXCEPT !.path = uri_part(first, last)]
                  /\ result' = "true"
             ELSE result' = "true" /\ UNCHANGED parts
        ELSE IF state = "query"
        THEN /\ parts' = [parts EXCEPT !.query = uri_part(first, last)]
             /\ result' = "true"
        ELSE /\ parts' = [parts EXCEPT !.fragment = uri_part(first, last)]
             /\ result' = "true"

\* a read at or beyond the end of the buffer is about to happen: besides
\* delivering some character, it can fault
ReadsBeyond ==
  \/ pc \in {"hier", "query", "fragment"} /\ it > last
  \/ pc = "query" /\ it = last
  \/ /\ pc = "hier" /\ hp_state = "authority" /\ it + 1 = last
     /\ input[it] = "@"
     /\ is_in(input, first, last, {"@", ":"}) = first
     /\ is_valid_user_info(input, first, it)

AccessFault ==
  /\ pc \in {"hier", "query", "fragment"}
  /\ ReadsBeyond
  /\ oob' = TRUE
  /\ Fault
  /\ UNCHANGED <<input, iters>>

Next ==
  \/ Start
  \/ SchemeStep
  \/ SchemeDone
  \/ FirstSlash
  \/ SecondSlash
  \/ Authority
  \/ Host
  \/ HostIpv6
  \/ Port
  \/ Path
  \/ HierExit
  \/ Query
  \/ QueryExit
  \/ Fragment
  \/ FragmentExit
  \/ Overrun
  \/ Finish
  \/ AccessFault

Spec == Init /\ [][Next]_vars

\* ----------------------------------------------------------- observations
Done == pc = "done"
Accepted == pc = "done" /\ result = "true"
Rejected == pc = "done" /\ result = "false"

TypeOK ==
  /\ input \in Inputs
  /\ it \in 1 .. (last + MaxOver + 3)
  /\ pc \in {"start", "scheme", "hier", "query", "fragment", "finish", "done"}
  /\ result \in {"none", "true", "false", "fault"}

\* ------------------------------------------------- vocabulary of the claims
\* the sub-states of the hierarchical part
hier_part_state == {"first_slash", "second_slash", "authority", "host",
                    "host_ipv6", "port", "path"}

SchemeChars == Alpha \cup Digit \cup {"+", "-", "."}

Present(p) == p # Absent
\* the characters of a slice
Text(p) == SubSeq(input, p[1], p[2] - 1)

\* position of the first ':' of the input, or 0
FirstColon ==
  IF \E i \in 1 .. Len(input) : input[i] = ":"
  THEN CHOOSE i \in 1 .. Len(input) :
         input[i] = ":" /\ \A j \in 1 .. (i - 1) : input[j] # ":"
  ELSE 0

\* the input starts with a well-formed scheme and its ':'
WellFormedScheme ==
  /\ FirstColon > 1
  /\ input[1] \in Alpha
  /\ \A j \in 2 .. (FirstColon - 1) : input[j] \in SchemeChars

\* the scheme ':' is followed by '//'
HasAuthority ==
  /\ FirstColon > 0
  /\ FirstColon + 2 <= Len(input)
  /\ input[FirstColon + 1] = "/"
  /\ input[FirstColon + 2] = "/"

AuthStart == FirstColon + 3
\* where the authority ends: at the first '/', '?' or '#', or at the end
AuthEnd ==
  IF \E i \in AuthStart .. Len(input) : input[i] \in {"/", "?", "#"}
  THEN CHOOSE i \in AuthStart .. Len(input) :
         /\ input[i] \in {"/", "?", "#"}
         /\ \A j \in AuthStart .. (i - 1) : input[j] \notin {"/", "?", "#"}
  ELSE last

\* the present slices, in the order of the components
PresentSlices ==
  LET all == <<parts.scheme, parts.user_info, parts.host, parts.port,
               parts.path, parts.query, parts.fragment>>
  IN SelectSeq(all, Present)

\* the input put together again from the slices and their delimiters
Reassembled ==
  Text(parts.scheme) \o <<":">>
  \o (IF Present(parts.host) \/ Present(parts.user_info) \/ Present(parts.port)
      THEN <<"/", "/">> ELSE << >>)
  \o (IF Present(parts.user_info) THEN Text(parts.user_info) \o <<"@">> ELSE << >>)
  \o (IF Present(parts.host) THEN Text(parts.host) ELSE << >>)
  \o (IF Present(parts.port) THEN <<":">> \o Text(parts.port) ELSE << >>)
  \o (IF Present(parts.path) THEN Text(parts.path) ELSE << >>)
  \o (IF Present(parts.query) THEN <<"?">> \o Text(parts.query) ELSE << >>)
  \o (IF Present(parts.fragment) THEN <<"#">> \o Text(parts.fragment) ELSE << >>)

\* ------------------------------------------------------------------ claims
\* C1: parse_uri never reads a character at or beyond the end-of-input
\* boundary and never advances the cursor past that boundary.
C1_StaysInsideInput == it <= last /\ ~oob

\* C2: every loop iteration advances the cursor or moves to a later
\* sub-phase, so the loops of parse_uri finish after a number of iterations
\* bounded by the input length (plus one per sub-phase).
C2_IterationsBounded == iters <= Len(input) + Cardinality(hier_part_state)

\* C3: parse_uri returns false on every input that does not start with a
\* well-formed scheme followed by ':' (empty input, first character not a
\* letter, a non-scheme character before the first ':', or no ':' at all).
C3_BadSchemeFails == (Done /\ ~WellFormedScheme) => result = "false"

\* C4: on every successful parse the path field is set.
C4_PathAlwaysSet == Accepted => Present(parts.path)

\* C5: on every successful parse every present slice lies inside the input
\* with start <= end, and the present slices are in component order without
\* overlapping.
C5_SlicesOrdered ==
  Accepted =>
    /\ \A i \in 1 .. Len(PresentSlices) :
         /\ 1 <= PresentSlices[i][1]
         /\ PresentSlices[i][1] <= PresentSlices[i][2]
         /\ PresentSlices[i][2] <= last
    /\ \A i \in 1 .. (Len(PresentSlices) - 1) :
         PresentSlices[i][2] <= PresentSlices[i + 1][1]

\* an accepted input with all seven components present
C5_Witness == Accepted /\ Len(PresentSlices) = 7

\* C6: for every accepted input, the present slices concatenated with their
\* delimiters reproduce the input exactly.
C6_RoundTrip == Accepted => Reassembled = input

\* C7: on every successful parse the scheme slice starts at the first input
\* character, is non-empty, starts with a letter, continues with scheme
\* characters only, and ends immediately before the first ':' of the input.
C7_SchemeSlice ==
  Accepted =>
    /\ Present(parts.scheme)
    /\ parts.scheme = <<1, FirstColon>>
    /\ WellFormedScheme

\* an accepted input whose scheme has more than one character
C7_Witness == Accepted /\ parts.scheme[2] > 2 /\ Present(parts.path)

\* C8: when the input ends in the host-ipv6 phase the parse succeeds only if
\* the host is a span that starts with '[' and ends with ']'.
C8_Ipv6MustClose ==
  (Accepted /\ state = "hier_part" /\ hp_state = "host_ipv6") =>
    /\ Present(parts.host)
    /\ parts.host[2] - parts.host[1] >= 2
    /\ input[parts.host[1]] = "["
    /\ input[parts.host[2] - 1] = "]"

\* C9: for an accepted input scheme '://' authority, where the authority has
\* no '@', ':' or '[', host is the entire authority span and port is absent.
PlainAuthority ==
  /\ HasAuthority
  /\ \A i \in AuthStart .. (AuthEnd - 1) : input[i] \notin {"@", ":", "["}

C9_PlainAuthorityIsHost ==
  (Accepted /\ PlainAuthority) =>
    /\ parts.host = <<AuthStart, AuthEnd>>
    /\ ~Present(parts.port)

\* an accepted input with a non-empty authority made of plain characters
C9_Witness == Accepted /\ PlainAuthority /\ AuthEnd > AuthStart + 1

\* C10: for an accepted input whose scheme ':' is not followed by '//',
\* user_info, host and port are absent and the path slice starts right after
\* the scheme ':'.
C10_NoAuthorityAllPath ==
  (Accepted /\ ~HasAuthority) =>
    /\ ~Present(parts.user_info)
    /\ ~Present(parts.host)
    /\ ~Present(parts.port)
    /\ Present(parts.path)
    /\ parts.path[1] = FirstColon + 1

\* the characters from b up to e are a run of tokens each of which is_pchar
\* accepts or is one of `extra`
RECURSIVE ValidRun(_, _, _)
ValidRun(b, e, extra) ==
  IF b >= e THEN b = e
  ELSE LET p == IF is_pchar(input, b, e) # b THEN is_pchar(input, b, e)
                ELSE is_in(input, b, e, extra)
       IN IF p = b THEN FALSE ELSE ValidRun(p, e, extra)

\* the first position from b on that holds one of cs, or `last`
RECURSIVE FirstOf(_, _)
FirstOf(b, cs) ==
  IF b >= last THEN last
  ELSE IF input[b] \in cs THEN b ELSE FirstOf(b + 1, cs)

\* the first position from b on that does not hold a digit, or `last`
RECURSIVE DigitsEnd(_)
DigitsEnd(b) ==
  IF b >= last THEN last
  ELSE IF input[b] \notin Digit THEN b ELSE DigitsEnd(b + 1)

\* the input is scheme '://' '[' literal ']' ':' digits '/' path-characters
CloseBracket == FirstOf(AuthStart, {"]"})
BracketPortPath ==
  /\ WellFormedScheme
  /\ HasAuthority
  /\ AuthStart < last
  /\ input[AuthStart] = "["
  /\ CloseBracket + 1 < last
  /\ input[CloseBracket + 1] = ":"
  /\ DigitsEnd(CloseBracket + 2) < last
  /\ input[DigitsEnd(CloseBracket + 2)] = "/"
  /\ ValidRun(DigitsEnd(CloseBracket + 2), last, {"/"})

\* C11: on scheme '://' '[' literal ']' ':' digits '/' path, with digits of
\* any length, parse_uri succeeds with host the bracketed span, port the
\* digit string and path starting at the '/'.
C11_BracketHostPort ==
  (Done /\ BracketPortPath) =>
    /\ result = "true"
    /\ parts.host = <<AuthStart, CloseBracket + 1>>
    /\ parts.port = <<CloseBracket + 2, DigitsEnd(CloseBracket + 2)>>
    /\ parts.path = <<DigitsEnd(CloseBracket + 2), last>>

\* the authority starts with a valid, non-empty user-info ended by '@'
AtPos == FirstOf(AuthStart, {"@"})
HasUserInfo ==
  /\ HasAuthority
  /\ AuthStart < AtPos
  /\ AtPos < last
  /\ is_valid_user_info(input, AuthStart, AtPos)

\* C12: parse_uri returns false on every input whose authority begins with
\* '@' or ':', and on every input whose host, right after the user-info '@',
\* begins with ':'.
C12_EmptyUserInfoOrHostFails ==
  /\ (Done /\ HasAuthority /\ AuthStart < last /\ input[AuthStart] \in {"@", ":"})
       => result = "false"
  /\ (Done /\ HasUserInfo /\ AtPos + 1 < last /\ input[AtPos + 1] = ":")
       => result = "false"

\* a parse rejected in the host sub-state because the host begins with ':'
C12_Witness ==
  /\ Rejected /\ hp_state = "host"
  /\ HasUserInfo /\ AtPos + 1 < last /\ input[AtPos + 1] = ":"

\* the authority has no user-info and no '[', and holds at least one ':'
ColonAuthority ==
  /\ HasAuthority
  /\ \A i \in AuthStart .. (AuthEnd - 1) : input[i] \notin {"@", "["}
  /\ \E i \in AuthStart .. (AuthEnd - 1) : input[i] = ":"

\* the last ':' of the authority
AuthLastColon ==
  CHOOSE i \in AuthStart .. (AuthEnd - 1) :
    input[i] = ":" /\ \A j \in (i + 1) .. (AuthEnd - 1) : input[j] # ":"

\* C13: for an authority without user-info and without '[' that holds a ':',
\* host is the span up to the last ':' and port the span after it (possibly
\* empty) on success, and a port with a non-digit makes the parse fail.
C13_SplitAtLastColon ==
  ColonAuthority =>
    /\ Accepted =>
         /\ parts.host = <<AuthStart, AuthLastColon>>
         /\ parts.port = <<AuthLastColon + 1, AuthEnd>>
    /\ (Done /\ \E i \in (AuthLastColon + 1) .. (AuthEnd - 1) : input[i] \notin Digit)
         => result = "false"

\* scheme://host:/path is accepted, with the port present and empty
C13_Witness ==
  /\ Accepted /\ ColonAuthority
  /\ AuthLastColon > AuthStart
  /\ parts.port = <<AuthEnd, AuthEnd>>
  /\ AuthEnd < last /\ input[AuthEnd] = "/"

\* the input is scheme '://' userinfo '@' host, the host running to the end
\* of the input
UserInfoHostToEnd ==
  /\ WellFormedScheme
  /\ HasUserInfo
  /\ input[AuthStart] # ":"
  /\ AtPos + 1 < last
  /\ \A i \in (AtPos + 1) .. Len(input) : input[i] \notin {":", "/", "?", "#"}
  /\ input[AtPos + 1] = "[" => (AtPos + 2 < last /\ input[Len(input)] = "]")

\* C14: when a host after a user-info runs to the end of the input, the
\* parse succeeds with user_info the span before '@', host the span from
\* after '@' to the end, port absent and path the empty slice at the end.
C14_HostResolvedAtEnd ==
  (Done /\ UserInfoHostToEnd) =>
    /\ result = "true"
    /\ parts.user_info = <<AuthStart, AtPos>>
    /\ parts.host = <<AtPos + 1, last>>
    /\ ~Present(parts.port)
    /\ parts.path = <<last, last>>

\* where the host starts: after the user-info '@', or at the authority start
HostStart == IF HasUserInfo THEN AtPos + 1 ELSE AuthStart

\* the position of the ':' that opens the port phase (0 when there is none):
\* the ':' that follows the ']' of a literal, or the first ':' of a host that
\* follows a user-info
PortColon ==
  IF ~(WellFormedScheme /\ HasAuthority /\ HostStart < last) THEN 0
  ELSE IF input[AuthStart] \in {"@", ":"} THEN 0
  ELSE IF input[HostStart] = "["
  THEN IF /\ FirstOf(HostStart, {"]"}) + 1 < last
          /\ input[FirstOf(HostStart, {"]"}) + 1] = ":"
       THEN FirstOf(HostStart, {"]"}) + 1 ELSE 0
  ELSE IF /\ HasUserInfo
          /\ input[HostStart] # ":"
          /\ FirstOf(HostStart, {":", "/", "?", "#"}) < last
          /\ input[FirstOf(HostStart, {":", "/", "?", "#"})] = ":"
  THEN FirstOf(HostStart, {":", "/", "?", "#"}) ELSE 0

PortStart == PortColon + 1
\* the port span ends at the next '/' or at the end of the input
PortEnd == FirstOf(PortStart, {"/"})

\* C15: once the port phase is entered, the parse fails if any character up
\* to the next '/' or the end of the input is not a digit.
C15_NonDigitPortFails ==
  (Done /\ PortColon > 0
        /\ \E i \in PortStart .. (PortEnd - 1) : input[i] \notin Digit)
    => result = "false"

\* C16: on every successful parse every character of the path slice
\* satisfies is_pchar or is '/'; the path never holds '?' or '#'.
C16_PathCharsValid ==
  (Accepted /\ Present(parts.path)) =>
    ValidRun(parts.path[1], parts.path[2], {"/"})

\* the authority has no user-info and holds a '[' that is not its first
\* character
LateBracket ==
  /\ WellFormedScheme
  /\ HasAuthority
  /\ AuthStart < AuthEnd
  /\ input[AuthStart] \notin {"[", ":", "@"}
  /\ \A i \in AuthStart .. (AuthEnd - 1) : input[i] # "@"
  /\ \E i \in (AuthStart + 1) .. (AuthEnd - 1) : input[i] = "["

\* C17: only a '[' at the start of the host switches to the host-ipv6 phase;
\* a '[' later in the authority does not restart the host slice, so the host
\* still starts at the start of the authority.
C17_LateBracketKeepsHost ==
  (Accepted /\ LateBracket) =>
    /\ Present(parts.host)
    /\ parts.host[1] = AuthStart

\* C18: once the query phase is entered after a '?', the parse succeeds
\* only if every character up to the first '#' or the end of the input is
\* is_pchar, '/' or '?'; on success the query slice is the span from just
\* after that '?' to that '#' or to the end, and a '#' opens the fragment.
C18_QuerySlice ==
  /\ (pc = "query" /\ it <= last) =>
       /\ first > 1 /\ input[first - 1] = "?"
       /\ ValidRun(first, it, {"/", "?"})
  /\ (Accepted /\ state \in {"query", "fragment"} /\ Present(parts.query)) =>
       /\ input[parts.query[1] - 1] = "?"
       /\ parts.query[2] = FirstOf(parts.query[1], {"#"})
       /\ ValidRun(parts.query[1], parts.query[2], {"/", "?"})
       /\ (parts.query[2] < last) = Present(parts.fragment)
  /\ (Accepted /\ state = "query") => Present(parts.query)

\* an accepted input with a non-empty query followed by a fragment
C18_Witness ==
  /\ Accepted /\ Present(parts.query) /\ Present(parts.fragment)
  /\ parts.query[1] < parts.query[2]

\* C19: the fragment phase is entered after the first '#' of the input; a
\* second '#' or a character that is neither is_pchar nor '/' nor '?' makes
\* the parse fail; on success the fragment slice is the span from just
\* after the first '#' to the end of the input.
C19_FragmentAfterFirstHash ==
  (Accepted /\ FirstOf(1, {"#"}) < last) =>
     /\ Present(parts.fragment)
     /\ parts.fragment = <<FirstOf(1, {"#"}) + 1, last>>
     /\ ValidRun(parts.fragment[1], last, {"/", "?"})

\* position of a top-level phase in the order of uri_state
Rank(st) ==
  CASE st = "scheme" -> 1
    [] st = "hier_part" -> 2
    [] st = "query" -> 3
    [] st = "fragment" -> 4

\* the scheme slice is set and holds a letter followed by scheme characters
SchemeValidated ==
  /\ Present(parts.scheme)
  /\ parts.scheme[1] = 1
  /\ parts.scheme[2] > 1
  /\ parts.scheme[2] <= last
  /\ input[1] \in Alpha
  /\ \A j \in 2 .. (parts.scheme[2] - 1) : input[j] \in SchemeChars

\* C20: the top-level phase only moves forward in the order scheme,
\* hierarchical part, query, fragment (query and fragment may be skipped, no
\* earlier phase is entered again), the phase leaves scheme for the
\* hierarchical part and only with a validated scheme, and the cursor never
\* moves backwards.
C20_PhasesForward ==
  [][ /\ Rank(state') >= Rank(state)
      /\ it' >= it
      /\ (state = "scheme" /\ state' # "scheme") =>
            (state' = "hier_part" /\ SchemeValidated')
      /\ (state # "scheme") => SchemeValidated ]_vars

\* an accepted parse that went through all four phases
C20_Witness ==
  /\ Accepted
  /\ state = "fragment"
  /\ Present(parts.query)
  /\ Present(parts.host)

====
